---- MODULE Spec2Model ----
(***************************************************************************)
(* Model of the TMVA-models notebooks: the data-loading helper             *)
(* get_dataset and the Trainer wrappers (CNN and LSTM) with their train /  *)
(* predict / score / save_model / load_model operations.                   *)
(*                                                                         *)
(* The tensor framework itself (forward pass, gradients) is abstracted:    *)
(* a network's state_dict is a vector of integer weights, one per class,   *)
(* and the score of class c on a sample with feature x is w[c] * x.        *)
(* An optimizer step replaces the weights by some other weight vector.     *)
(* The layers of the networks are modelled apart, by the shapes of the     *)
(* tensors that pass through them.                                         *)
(* Floating point test_split values are hundredths (20 means 0.2); the     *)
(* learning rate is an integer in units of lr0 / 3^k so that the divisions *)
(* by 3 of the decay schedule are exact.                                   *)
(***************************************************************************)
EXTENDS Integers, Sequences, FiniteSets, Bags, TLC

VARIABLES
    file,     \* contents of the data file: [sig |-> Seq, bkg |-> Seq]
    rng,      \* state of the global numpy random generator
    ds,       \* outcome of the last get_dataset call
    memo,     \* what the first call with each test_split returned, and
              \* whether the generator was then in its seed(0) state
    kind,     \* kind[t]: the class ("CNN" or "LSTM") trainer t was built from
    net,      \* net[t]: [w |-> state_dict of t's network, mode |-> train/eval,
              \* grad |-> the minibatches whose gradients .grad holds]
    fs,       \* checkpoint files: path -> saved state_dict, or NoFile
    pc,       \* position of the interpreter: "idle" or inside Trainer.train
    call,     \* locals of the running train call
    targs,    \* targs[t]: arguments of t's (last) train call
    trace,    \* trace[t]: framework calls made by t's (last) train call
    out,      \* what the (last) train call printed
    logf,     \* log files: path -> lines
    ret,      \* the last completed Trainer call and its result
    snap,     \* snap[p]: who last wrote p with save_model(p), and the
              \* parameters it had at that moment
    arch,     \* arch[t]: the layers of t's network, as its constructor
              \* built them
    fwd       \* the last forward pass through a network: whose network,
              \* the shape of the input and the shapes along the pass

dataVars == <<file, rng, ds, memo>>

trainerVars == <<kind, net, fs, pc, call, targs, trace, out, logf, ret, snap>>

shapeVars == <<arch, fwd>>

vars == <<file, rng, ds, memo, kind, net, fs, pc, call, targs, trace, out,
          logf, ret, snap, arch, fwd>>

----------------------------------------------------------------------------
(* Bounds *)

MaxTree == 4        \* largest number of records in one tree
RngMod == 4         \* number of states of the modelled generator

(* Sample values stored in the trees (images / time series) *)
DataVals == {"a", "b"}

(* test_split values tried, in hundredths: 0, the default 0.2, the upper   *)
(* limit 0.3 and a value above the limit                                   *)
Splits == {0, 20, 30, 40}

(* test_split values at and just outside the limits: -0.01, 0, 0.3, 0.31  *)
EdgeSplits == {0 - 1, 0, 30, 31}

Labels == {0, 1}

----------------------------------------------------------------------------
(* Sequence helpers *)

SeqsUpTo(S, n) == UNION {[1..k -> S] : k \in 0..n}

Min(a, b) == IF a < b THEN a ELSE b

Max(a, b) == IF a > b THEN a ELSE b

(* [v] * n *)
Repeat(v, n) == [i \in 1..n |-> v]

(* data[:stop] with Python's meaning of a negative stop; -0 is 0 *)
PySliceTo(data, stop) ==
    LET n == Len(data)
        hi == IF stop < 0 THEN Max(n + stop, 0) ELSE Min(stop, n)
    IN SubSeq(data, 1, hi)

(* data[start:] with Python's meaning of a negative start; -0 is 0 *)
PySliceFrom(data, start) ==
    LET n == Len(data)
        lo == IF start < 0 THEN Max(n + start, 0) ELSE Min(start, n)
    IN SubSeq(data, lo + 1, n)

(* np.concatenate of a list of sequences *)
RECURSIVE Concatenate(_)
Concatenate(parts) ==
    IF parts = <<>> THEN <<>>
    ELSE Head(parts) \o Concatenate(Tail(parts))

(* A fancy indexing that repeats the first selected element *)
TakeIdx_First(X, perm) == [i \in 1..Len(perm) |-> X[perm[1]]]

(* X[perm] : fancy indexing with a 1-based permutation *)
TakeIdx(X, perm) == [i \in 1..Len(perm) |-> X[perm[i]]]

(* The multiset of (sample, label) pairs of two parallel sequences *)
RECURSIVE PairBag(_, _)
PairBag(X, Y) ==
    IF X = <<>> \/ Y = <<>> THEN EmptyBag
    ELSE SetToBag({<<Head(X), Head(Y)>>}) (+) PairBag(Tail(X), Tail(Y))

----------------------------------------------------------------------------
(* The numpy global generator: a linear congruential generator stands for  *)
(* the Mersenne twister.  Every draw advances the state.                   *)

RngSeed(s) == s % RngMod

RngStep(s) == (5 * s + 3) % RngMod

Swap(seq, i, j) == [seq EXCEPT ![i] = seq[j], ![j] = seq[i]]

(* np.random.shuffle: Fisher-Yates from the last position down, the swap   *)
(* partner of position i drawn among 1..i.  Returns data and new state.    *)
RECURSIVE ShuffleFrom(_, _, _)
ShuffleFrom(data, i, s) ==
    IF i < 2 THEN [data |-> data, rng |-> s]
    ELSE LET s1 == RngStep(s)
             j == 1 + (s1 % i)
         IN ShuffleFrom(Swap(data, i, j), i - 1, s1)

NpShuffle(data, s) == ShuffleFrom(data, Len(data), s)

(* np.random.permutation(n): shuffle of arange(n) *)
NpPermutation(n, s) == NpShuffle([i \in 1..n |-> i], s)

----------------------------------------------------------------------------
(* get_dataset *)

(* A precondition that rejects the two limits *)
SplitAccepted_Open(test_split) == 0 < test_split /\ test_split < 30

(* assert 0 <= test_split <= 0.3 *)
SplitAccepted(test_split) == 0 <= test_split /\ test_split <= 30

(* int(len(data) * test_split) *)
TestSize(n, test_split) == (n * test_split) \div 100

(* One iteration of the loop over the trees: shuffle, slice, label *)
SplitTree(label, data0, test_split, s) ==
    LET sh == NpShuffle(data0, s)
        data == sh.data
        test_size == TestSize(Len(data), test_split)
    IN [ n |-> Len(data),
         test_size |-> test_size,
         x_train |-> PySliceTo(data, 0 - test_size),
         x_test |-> PySliceFrom(data, 0 - test_size),
         y_train |-> Repeat(label, Len(data) - test_size),
         y_test |-> Repeat(label, test_size),
         rng |-> sh.rng ]

(* The shuffles continue from whatever state the generator is in *)
SeedBeforeShuffle_Unseeded(s) == s

(* The generator state the shuffles start from: np.random.seed(0) *)
SeedBeforeShuffle(s) == RngSeed(0)

NoDataset == [status |-> "none", split |-> 0, pre |-> 0, read |-> FALSE,
              parts |-> <<>>,
              X_train |-> <<>>, Y_train |-> <<>>,
              X_test |-> <<>>, Y_test |-> <<>>]

(* The whole call; `pre` is the generator state before the call, `read`    *)
(* tells whether root2array was called on the data file.                   *)
(* status: "ok" (returned), "precondition" (first assert failed),          *)
(* "ValueError" (np.concatenate of an empty 1-d tree with a 2-d tree),     *)
(* "AssertionError" (a length assert after the concatenation failed).      *)
GetDatasetResult(f, test_split, pre) ==
    IF ~SplitAccepted(test_split)
    THEN [res |-> [NoDataset EXCEPT !.status = "precondition",
                                    !.split = test_split, !.pre = pre],
          rng |-> pre]
    ELSE
    LET s0 == SeedBeforeShuffle(pre)
        p0 == SplitTree(0, f.sig, test_split, s0)
        p1 == SplitTree(1, f.bkg, test_split, p0.rng)
        parts == <<p0, p1>>
        X_train == Concatenate(<<p0.x_train, p1.x_train>>)
        X_test == Concatenate(<<p0.x_test, p1.x_test>>)
        Y_train == Concatenate(<<p0.y_train, p1.y_train>>)
        Y_test == Concatenate(<<p0.y_test, p1.y_test>>)
        base == [status |-> "ok", split |-> test_split, pre |-> pre,
                 read |-> TRUE,
                 parts |-> <<[n |-> p0.n, test_size |-> p0.test_size,
                              train |-> Len(p0.x_train), test |-> Len(p0.x_test)],
                             [n |-> p1.n, test_size |-> p1.test_size,
                              train |-> Len(p1.x_train), test |-> Len(p1.x_test)]>>,
                 X_train |-> X_train, Y_train |-> Y_train,
                 X_test |-> X_test, Y_test |-> Y_test]
    IN IF (p0.n = 0) # (p1.n = 0)
       THEN [res |-> [base EXCEPT !.status = "ValueError"], rng |-> p1.rng]
       ELSE IF Len(Y_train) # Len(X_train) \/ Len(Y_test) # Len(X_test)
       THEN [res |-> [base EXCEPT !.status = "AssertionError"], rng |-> p1.rng]
       ELSE LET tp == NpPermutation(Len(X_train), p1.rng)
                sp == NpPermutation(Len(X_test), tp.rng)
            IN [res |-> [base EXCEPT !.X_train = TakeIdx(X_train, tp.data),
                                     !.Y_train = TakeIdx(Y_train, tp.data),
                                     !.X_test = TakeIdx(X_test, sp.data),
                                     !.Y_test = TakeIdx(Y_test, sp.data)],
                rng |-> sp.rng]

NoCall == [seeded |-> FALSE, ret |-> <<>>]

(* What the caller observes of a call *)
Returned(d) ==
    IF d.status = "ok"
    THEN <<"ok", d.X_train, d.Y_train, d.X_test, d.Y_test>>
    ELSE <<d.status>>

get_dataset(test_split) ==
    LET r == GetDatasetResult(file, test_split, rng)
    IN /\ pc = "idle"
       /\ ds' = r.res
       /\ rng' = r.rng
       /\ memo' = IF memo[test_split] = NoCall
                  THEN [memo EXCEPT ![test_split] =
                                   [seeded |-> (rng = RngSeed(0)),
                                    ret |-> Returned(r.res)]]
                  ELSE memo
       /\ UNCHANGED file
       /\ UNCHANGED trainerVars
       /\ UNCHANGED shapeVars

----------------------------------------------------------------------------
(* The Trainer classes *)

Trainers == {"A", "B"}

Kinds == {"CNN", "LSTM"}

None == "None"

NumClasses == 2     \* num_classes of both notebooks' Trainer
MaxWeight == 1      \* weights range over 0..MaxWeight
MaxFeature == 1     \* a sample's feature ranges over 0..MaxFeature
MaxBatch == 2       \* longest input of predict and score
MaxLoss == 1        \* a minibatch loss ranges over 0..MaxLoss
MaxEpochs == 3      \* largest epochs argument of train
MaxN == 2           \* largest number of training samples
MaxB == 2           \* largest batch_size
Lr0 == 1000         \* initial learning rate 0.001, in units of 1e-6
ImgSize == 32       \* imgsize of the CNN Trainer
Timesteps == 10     \* timesteps of the LSTM Trainer
InputFeatSize == 30 \* input_feat_size of the LSTM Trainer
HiddenFeatSize == 256 \* hidden_feat_size of the LSTM Trainer
Filters == 8        \* filters of the CNN Trainer
KernelSize == 3     \* kernel_size of the CNN Trainer
InFilters == 1      \* in_filters of the CNN Trainer
MaxImg == 2         \* largest imgsize of a constructed CNN Trainer
MaxFilters == 2     \* largest filters of a constructed CNN Trainer
MaxT == 2           \* largest timesteps and largest input_feat_size of a
                    \* constructed LSTM Trainer
MaxHidden == 2      \* largest hidden_feat_size of a constructed LSTM Trainer

Classes == 0..(NumClasses - 1)

Samples == 0..MaxFeature

FeatureDim == Timesteps * InputFeatSize

ParamSet == [Classes -> 0..MaxWeight]

CkptPaths == {"model.pth"}

LogPaths == {"train.log"}

NoFile == [key |-> "", tensor |-> <<>>]

RECURSIVE Pow3(_)
Pow3(k) == IF k = 0 THEN 1 ELSE 3 * Pow3(k - 1)

(* len(trainloader): the DataLoader keeps the last, smaller minibatch *)
NumBatches(N, B) == (N + B - 1) \div B

(* A trainloader that drops a last, smaller minibatch *)
DataLoaderBatches_DropLast(N, B, drawn) ==
    {b \in SUBSET ((1..N) \ drawn) : Cardinality(b) = B}

(* DataLoader(train_dataset, batch_size=B, shuffle=True): the minibatches  *)
(* the loader may yield next in a pass in which it has yielded the samples *)
(* in `drawn`: B samples not yet drawn, or the rest when fewer are left;   *)
(* none when all are drawn                                                 *)
DataLoaderBatches(N, B, drawn) ==
    {b \in SUBSET ((1..N) \ drawn) :
        /\ b # {}
        /\ Cardinality(b) = Min(B, N - Cardinality(drawn))}

(* The samples in the minibatches yielded so far *)
Drawn(batches) == UNION {batches[i] : i \in 1..Len(batches)}

(* The effect of one statement of the loop body on the gradients: g.grad   *)
(* is the set of minibatches whose gradients are summed in the parameters' *)
(* .grad, g.applied the set an optimizer step last applied, g.momentum    *)
(* the set whose gradients the optimizer's momentum buffers hold a share   *)
(* of (SGD with momentum: buf = momentum * buf + grad, an empty buffer     *)
(* being set to grad)                                                      *)
Autograd(stmt, id, g) ==
    IF stmt = "zero_grad" THEN [g EXCEPT !.grad = {}]
    ELSE IF stmt = "backward" THEN [g EXCEPT !.grad = g.grad \cup {id}]
    ELSE IF stmt = "step" THEN [g EXCEPT !.applied = g.grad,
                                         !.momentum = g.momentum \cup g.grad]
    ELSE g

(* The loop body on minibatch id *)
RECURSIVE RunBody(_, _, _)
RunBody(body, id, g) ==
    IF body = <<>> THEN g
    ELSE RunBody(Tail(body), id, Autograd(Head(body), id, g))

(* The framework calls of the loop body, as the trace records them *)
BodyEvents(body, shape) ==
    [k \in 1..Len(body) |->
        IF body[k] = "forward" THEN <<"forward", shape>> ELSE <<body[k]>>]

(* A write that replaces the file's lines *)
FileAppend_Truncate(lines, line) == <<line>>

(* open(log_file, 'a') and f.write: the line goes after the file's lines   *)
FileAppend(lines, line) == Append(lines, line)

(* float('%.6f' % lr): lr = num * 1e-6 / 3^div rounded to a multiple of    *)
(* 1e-6 and returned in units of 1e-6                                      *)
FormatLr(lr) == (2 * lr.num + Pow3(lr.div)) \div (2 * Pow3(lr.div))

(* float('%.7f' % tot_loss): tot_loss = sum / nb rounded to a multiple of  *)
(* 1e-7 and returned in units of 1e-7                                      *)
FormatLoss(sum, nb) == (2 * sum * 10000000 + nb) \div (2 * nb)

(* An index that is the last one holding the largest score *)
ArgMax_Last(scores) ==
    CHOOSE c \in DOMAIN scores :
        /\ \A d \in DOMAIN scores : scores[d] <= scores[c]
        /\ \A d \in DOMAIN scores : d > c => scores[d] < scores[c]

(* np.argmax over the class axis: the first index of the largest score *)
ArgMax(scores) ==
    CHOOSE c \in DOMAIN scores :
        /\ \A d \in DOMAIN scores : scores[d] <= scores[c]
        /\ \A d \in DOMAIN scores : d < c => scores[d] < scores[c]

(* A sum that counts the positions where the arrays differ *)
RECURSIVE SumEqual_Differ(_, _)
SumEqual_Differ(pred, Y) ==
    IF pred = <<>> THEN 0
    ELSE (IF Head(pred) # Head(Y) THEN 1 ELSE 0) + SumEqual_Differ(Tail(pred), Tail(Y))

(* np.sum(pred == Y): elementwise comparison of two arrays of one length *)
RECURSIVE SumEqual(_, _)
SumEqual(pred, Y) ==
    IF pred = <<>> THEN 0
    ELSE (IF Head(pred) = Head(Y) THEN 1 ELSE 0) + SumEqual(Tail(pred), Tail(Y))

Idle == [t |-> None, epoch |-> 0, lr |-> [num |-> 0, div |-> 0],
         i |-> 0, nb |-> 0, tot_loss |-> 0,
         batches |-> <<>>, losses |-> EmptyBag, applied |-> {},
         momentum |-> {}]

NoArgs == [epochs |-> 0, decay |-> 0, N |-> 0, B |-> 0,
           logging |-> FALSE, log_file |-> None]

NoRet == [op |-> "none", t |-> None, model |-> None, path |-> None,
          X |-> <<>>, Y |-> <<>>, val |-> <<>>, old |-> <<>>]

NoSnap == [by |-> None, w |-> <<>>]

(* A default that picks another trainer's network *)
Target_Other(t, model) ==
    IF model = None THEN CHOOSE u \in Trainers : u # t ELSE model

(* if model is None: model = self.net *)
Target(t, model) == IF model = None THEN t ELSE model

(* The parameter names of the two network classes *)
NetKeys(k) ==
    IF k = "CNN" THEN "conv1.c1,conv1.b1,conv2.c1,conv2.b1,fc1,fc2"
    ELSE "lstm,hidden2out"

(* Module.state_dict(): parameter names and values *)
StateDict(k, w) == [key |-> NetKeys(k), tensor |-> w]

(* A load that checks the names but copies nothing *)
LoadStateDict_Keep(k, w, sd) ==
    IF sd.key = NetKeys(k)
    THEN [status |-> "ok", w |-> w]
    ELSE [status |-> "RuntimeError", w |-> w]

(* Module.load_state_dict(sd), strict: the names must be the module's own  *)
LoadStateDict(k, w, sd) ==
    IF sd.key = NetKeys(k)
    THEN [status |-> "ok", w |-> sd.tensor]
    ELSE [status |-> "RuntimeError", w |-> w]

----------------------------------------------------------------------------
(* The layers of the framework, by the shapes of their tensors.  A shape   *)
(* is a tuple of sizes; NoShape stands for the RuntimeError a layer raises *)
(* on a tensor it cannot take.                                             *)

NoShape == <<>>

RECURSIVE NumElements(_)
NumElements(shape) ==
    IF shape = <<>> THEN 1 ELSE Head(shape) * NumElements(Tail(shape))

(* nn.Linear(in_features, out_features) *)
nn_Linear(in_features, out_features) ==
    [in_features |-> in_features, out_features |-> out_features]

(* Linear.forward: the last size of the input must be in_features *)
nn_Linear_forward(l, shape) ==
    IF shape = NoShape \/ shape[Len(shape)] # l.in_features THEN NoShape
    ELSE [shape EXCEPT ![Len(shape)] = l.out_features]

(* nn.Conv2d(in_channels, out_channels, kernel_size, padding=padding),     *)
(* stride 1                                                                *)
nn_Conv2d(in_channels, out_channels, kernel_size, padding) ==
    [in_channels |-> in_channels, out_channels |-> out_channels,
     kernel_size |-> kernel_size, padding |-> padding]

(* Conv2d.forward on (batch, channels, height, width): the channels must   *)
(* be in_channels and the padded image at least as large as the kernel     *)
nn_Conv2d_forward(c, shape) ==
    IF \/ shape = NoShape
       \/ shape[2] # c.in_channels
       \/ shape[3] + 2 * c.padding < c.kernel_size
       \/ shape[4] + 2 * c.padding < c.kernel_size
    THEN NoShape
    ELSE <<shape[1], c.out_channels,
           shape[3] + 2 * c.padding - c.kernel_size + 1,
           shape[4] + 2 * c.padding - c.kernel_size + 1>>

(* nn.BatchNorm2d(num_features).forward: keeps the shape *)
nn_BatchNorm2d_forward(num_features, shape) ==
    IF shape = NoShape \/ shape[2] # num_features THEN NoShape ELSE shape

(* nn.LSTM(input_size, hidden_size, num_layers=, bidirectional=) *)
nn_LSTM(input_size, hidden_size, num_layers, bidirectional) ==
    [input_size |-> input_size, hidden_size |-> hidden_size,
     num_layers |-> num_layers, bidirectional |-> bidirectional]

(* LSTM.forward on (seq_len, batch, input_size): the output of the last    *)
(* layer, both directions side by side                                     *)
nn_LSTM_forward(l, shape) ==
    IF shape = NoShape \/ shape[3] # l.input_size THEN NoShape
    ELSE <<shape[1], shape[2],
           (IF l.bidirectional THEN 2 ELSE 1) * l.hidden_size>>

(* Tensor.reshape: the new shape must hold as many elements *)
Reshape(shape, new) ==
    IF shape = NoShape \/ NumElements(shape) # NumElements(new) THEN NoShape
    ELSE new

(* Tensor.transpose(0, 1) *)
Transpose01(shape) ==
    IF shape = NoShape THEN NoShape
    ELSE [shape EXCEPT ![1] = shape[2], ![2] = shape[1]]

(* The position in row-major order of index idx (from 0) in a tensor *)
RECURSIVE FlatIndex(_, _)
FlatIndex(shape, idx) ==
    IF shape = <<>> THEN 0
    ELSE Head(idx) * NumElements(Tail(shape)) + FlatIndex(Tail(shape), Tail(idx))

(* The index (from 0) of the element at row-major position f *)
RECURSIVE Unravel(_, _)
Unravel(shape, f) ==
    IF shape = <<>> THEN <<>>
    ELSE <<f \div NumElements(Tail(shape))>>
           \o Unravel(Tail(shape), f % NumElements(Tail(shape)))

(* All indices of a tensor of the given shape *)
RECURSIVE Indices(_)
Indices(shape) ==
    IF shape = <<>> THEN {<<>>}
    ELSE {<<i>> \o r : i \in 0..(Head(shape) - 1), r \in Indices(Tail(shape))}

NoFwd == [t |-> None, x |-> NoShape, r |-> [status |-> "none"]]

----------------------------------------------------------------------------
(* CNN notebook: Net and Trainer *)

(* ConvBlock.__init__: a convolution and a batch normalisation *)
ConvBlock(in_filters, out_filters, kernel_size, padding) ==
    [c1 |-> nn_Conv2d(in_filters, out_filters, kernel_size, padding),
     b1 |-> out_filters]

(* ConvBlock.forward *)
ConvBlock_forward(b, shape) ==
    nn_BatchNorm2d_forward(b.b1, nn_Conv2d_forward(b.c1, shape))

(* Net.__init__ *)
Net(imgsize, num_classes, in_filters, filters, kernel_size, padding) ==
    [imgsize |-> imgsize,
     conv1 |-> ConvBlock(in_filters, filters, kernel_size, padding),
     conv2 |-> ConvBlock(filters, filters, kernel_size, padding),
     fc1 |-> nn_Linear(filters * imgsize * imgsize, 64),
     fc2 |-> nn_Linear(64, num_classes)]

(* Net.num_flat_features: the product of all sizes but the batch size *)
num_flat_features(shape) == NumElements(Tail(shape))

(* Net.forward, by shapes: the two blocks, the flattening view, the two    *)
(* linear layers (the activations keep the shape)                          *)
Net_forward(n, x) ==
    LET conv1 == ConvBlock_forward(n.conv1, x)
        conv2 == ConvBlock_forward(n.conv2, conv1)
        flat == IF conv2 = NoShape THEN NoShape
                ELSE <<NumElements(conv2) \div num_flat_features(conv2),
                       num_flat_features(conv2)>>
        fc1 == nn_Linear_forward(n.fc1, flat)
        scores == nn_Linear_forward(n.fc2, fc1)
    IN [status |-> IF scores = NoShape THEN "RuntimeError" ELSE "ok",
        conv1 |-> conv1, conv2 |-> conv2, flat |-> flat, fc1 |-> fc1,
        out |-> scores]

(* Trainer.__init__: the network it builds; padding is left to Net *)
CNN_Trainer(imgsize, num_classes, in_filters, filters, kernel_size) ==
    Net(imgsize, num_classes, in_filters, filters, kernel_size, 1)

(* Net.forward in eval mode: one score per class *)
CNN_Forward(w, x) == [c \in Classes |-> w[c] * x]

(* x.reshape(1, imgsize, imgsize) *)
CNN_Reshape(imgsize) == <<1, imgsize, imgsize>>

(* torch.save(model.state_dict(), checkpoint_path): the new file *)
CNN_SavedFile(k, w) == StateDict(k, w)

(* model.load_state_dict(torch.load(checkpoint_path)), on either device *)
CNN_Loaded(f, k, w) ==
    IF f = NoFile THEN [status |-> "FileNotFoundError", w |-> w]
    ELSE LoadStateDict(k, w, f)

CNN_PredictLabels(w, inputs) ==
    [i \in 1..Len(inputs) |-> ArgMax(CNN_Forward(w, inputs[i]))]

(* np.sum(pred == Y) / len(Y), as numerator and denominator *)
CNN_Accuracy(pred, Y) == [num |-> SumEqual(pred, Y), den |-> Len(Y)]

(* A decay that divides the initial rate instead of the current one *)
CNN_DecayLr_Restart(epoch, decay, lr) ==
    IF epoch % decay = 0 THEN [lr EXCEPT !.div = 1] ELSE lr

(* if (epoch % decay == 0): lr /= 3 *)
CNN_DecayLr(epoch, decay, lr) ==
    IF epoch % decay = 0 THEN [lr EXCEPT !.div = lr.div + 1] ELSE lr

CNN_LogRecord(epoch, sum, nb, lr) ==
    [epoch |-> epoch, loss |-> FormatLoss(sum, nb), lr |-> FormatLr(lr)]

(* A loop body that never zeroes the gradients *)
CNN_BatchBody_NoZeroGrad == <<"forward", "criterion", "backward", "step">>

(* The statements of the loop body, in the order of the code *)
CNN_BatchBody == <<"zero_grad", "forward", "criterion", "backward", "step">>

(* The locals at the head of an epoch, were the optimizer constructed once *)
(* before the loop and kept                                                *)
CNN_EpochHead_KeepOptimizer(c, epoch, lr) ==
    [c EXCEPT !.epoch = epoch, !.lr = lr, !.tot_loss = 0, !.i = 0,
              !.batches = <<>>, !.losses = EmptyBag]

(* The locals at the head of an epoch: the new optimizer has no momentum   *)
(* buffers                                                                 *)
CNN_EpochHead(c, epoch, lr) ==
    [c EXCEPT !.epoch = epoch, !.lr = lr, !.tot_loss = 0, !.i = 0,
              !.batches = <<>>, !.losses = EmptyBag,
              !.momentum = {}]

(* train, up to the loop over the epochs *)
CNN_train_begin(t, a) ==
    /\ pc = "idle"
    /\ kind[t] = "CNN"
    /\ targs' = [targs EXCEPT ![t] = a]
    /\ trace' = [trace EXCEPT ![t] = << <<"reshape", CNN_Reshape(arch[t].imgsize)>>,
                                        <<"net.train">> >>]
    /\ net' = [net EXCEPT ![t].mode = "train"]
    /\ call' = [t |-> t, epoch |-> 0, lr |-> [num |-> Lr0, div |-> 0],
                i |-> 0, nb |-> NumBatches(a.N, a.B), tot_loss |-> 0,
                batches |-> <<>>, losses |-> EmptyBag, applied |-> {},
                momentum |-> {}]
    /\ out' = <<>>
    /\ ret' = NoRet
    /\ pc' = "loop"
    /\ UNCHANGED <<kind, fs, logf, snap, dataVars, shapeVars>>

(* head of one epoch: decay, new optimizer, tot_loss = 0.0, a new pass     *)
(* over the trainloader                                                    *)
CNN_epoch_begin(t) ==
    /\ pc = "loop"
    /\ call.t = t
    /\ kind[t] = "CNN"
    /\ call.epoch < targs[t].epochs
    /\ LET epoch == call.epoch + 1
           lr == CNN_DecayLr(epoch, targs[t].decay, call.lr)
       IN /\ call' = CNN_EpochHead(call, epoch, lr)
          /\ trace' = [trace EXCEPT ![t] =
                 @ \o (IF lr # call.lr THEN << <<"lr /= 3">> >> ELSE <<>>)
                   \o << <<"optim.SGD", lr.div>> >>]
    /\ pc' = "batch"
    /\ UNCHANGED <<kind, net, fs, targs, out, logf, ret, snap, dataVars, shapeVars>>

(* one minibatch the trainloader yields: the loop body on it *)
CNN_minibatch(t, batch, loss, w) ==
    /\ pc = "batch"
    /\ call.t = t
    /\ kind[t] = "CNN"
    /\ batch \in DataLoaderBatches(targs[t].N, targs[t].B, Drawn(call.batches))
    /\ LET g == RunBody(CNN_BatchBody, <<call.epoch, call.i + 1>>,
                        [grad |-> net[t].grad, applied |-> call.applied,
                         momentum |-> call.momentum])
       IN /\ net' = [net EXCEPT ![t].w = w, ![t].grad = g.grad]
          /\ call' = [call EXCEPT !.i = call.i + 1,
                                  !.tot_loss = call.tot_loss + loss,
                                  !.batches = Append(@, batch),
                                  !.losses = @ (+) SetToBag({loss}),
                                  !.applied = g.applied,
                                  !.momentum = g.momentum]
    /\ trace' = [trace EXCEPT ![t] = @ \o BodyEvents(CNN_BatchBody, CNN_Reshape(arch[t].imgsize))]
    /\ UNCHANGED <<kind, fs, pc, targs, out, logf, ret, snap, dataVars, shapeVars>>

(* end of one epoch, when the trainloader is exhausted: mean loss, log     *)
(* record                                                                  *)
CNN_epoch_end(t) ==
    /\ pc = "batch"
    /\ call.t = t
    /\ kind[t] = "CNN"
    /\ DataLoaderBatches(targs[t].N, targs[t].B, Drawn(call.batches)) = {}
    /\ LET log == CNN_LogRecord(call.epoch, call.tot_loss, call.nb, call.lr)
       IN /\ out' = IF targs[t].logging THEN Append(out, <<"log", log>>) ELSE out
          /\ logf' = IF targs[t].log_file # None
                     THEN [logf EXCEPT ![targs[t].log_file] = FileAppend(@, log)]
                     ELSE logf
    /\ trace' = [trace EXCEPT ![t] = Append(@, <<"log", call.epoch, call.lr.div>>)]
    /\ pc' = "loop"
    /\ UNCHANGED <<kind, net, fs, call, targs, ret, snap, dataVars, shapeVars>>

(* after the last epoch *)
CNN_train_end(t) ==
    /\ pc = "loop"
    /\ call.t = t
    /\ kind[t] = "CNN"
    /\ call.epoch >= targs[t].epochs
    /\ out' = Append(out, <<"Finished Training">>)
    /\ pc' = "idle"
    /\ call' = Idle
    /\ ret' = [NoRet EXCEPT !.op = "train", !.t = t]
    /\ UNCHANGED <<kind, net, fs, targs, trace, logf, snap, dataVars, shapeVars>>

CNN_predict(t, inputs) ==
    /\ pc = "idle"
    /\ kind[t] = "CNN"
    /\ net' = [net EXCEPT ![t].mode = "eval"]
    /\ ret' = [NoRet EXCEPT !.op = "predict", !.t = t, !.X = inputs,
                            !.val = CNN_PredictLabels(net[t].w, inputs)]
    /\ UNCHANGED <<kind, fs, pc, call, targs, trace, out, logf, snap, dataVars, shapeVars>>

CNN_score(t, X, Y) ==
    /\ pc = "idle"
    /\ kind[t] = "CNN"
    /\ net' = [net EXCEPT ![t].mode = "eval"]
    /\ LET pred == CNN_PredictLabels(net[t].w, X)
       IN ret' = [NoRet EXCEPT !.op = "score", !.t = t, !.X = X, !.Y = Y,
                               !.val = CNN_Accuracy(pred, Y)]
    /\ UNCHANGED <<kind, fs, pc, call, targs, trace, out, logf, snap, dataVars, shapeVars>>

CNN_save_model(t, checkpoint_path, model) ==
    /\ pc = "idle"
    /\ kind[t] = "CNN"
    /\ LET m == Target(t, model)
       IN fs' = [fs EXCEPT ![checkpoint_path] = CNN_SavedFile(kind[m], net[m].w)]
    /\ snap' = [snap EXCEPT ![checkpoint_path] =
                    IF model = None THEN [by |-> t, w |-> net[t].w] ELSE NoSnap]
    /\ ret' = [NoRet EXCEPT !.op = "save_model", !.t = t, !.model = model,
                            !.path = checkpoint_path]
    /\ UNCHANGED <<kind, net, pc, call, targs, trace, out, logf, dataVars, shapeVars>>

CNN_load_model(t, checkpoint_path, model) ==
    /\ pc = "idle"
    /\ kind[t] = "CNN"
    /\ LET m == Target(t, model)
           r == CNN_Loaded(fs[checkpoint_path], kind[m], net[m].w)
       IN /\ net' = [net EXCEPT ![m].w = r.w]
          /\ ret' = [NoRet EXCEPT !.op = "load_model", !.t = t, !.model = model,
                                  !.path = checkpoint_path, !.val = r.status,
                                  !.old = net[m].w]
    /\ UNCHANGED <<kind, fs, pc, call, targs, trace, out, logf, snap, dataVars, shapeVars>>

(* Trainer(...): a new trainer takes the place of t *)
CNN_init(t, imgsize, num_classes, in_filters, filters, kernel_size, w) ==
    /\ pc = "idle"
    /\ kind[t] = "CNN"
    /\ arch' = [arch EXCEPT ![t] = CNN_Trainer(imgsize, num_classes,
                                               in_filters, filters, kernel_size)]
    /\ net' = [net EXCEPT ![t] = [w |-> w, mode |-> "train", grad |-> {}]]
    /\ targs' = [targs EXCEPT ![t] = NoArgs]
    /\ trace' = [trace EXCEPT ![t] = <<>>]
    /\ fwd' = NoFwd
    /\ UNCHANGED <<kind, fs, pc, call, out, logf, ret, snap, dataVars>>

(* self.net(inputs) on n samples, reshaped as train and predict do *)
CNN_net_call(t, n) ==
    /\ pc = "idle"
    /\ kind[t] = "CNN"
    /\ LET x == <<n>> \o CNN_Reshape(arch[t].imgsize)
       IN fwd' = [t |-> t, x |-> x, r |-> Net_forward(arch[t], x)]
    /\ UNCHANGED <<arch, trainerVars, dataVars>>

----------------------------------------------------------------------------
(* LSTM notebook: LSTMnet and Trainer *)

(* A network whose linear layer is as wide as one direction only *)
LSTMnet_OneDirectionWide(timesteps, input_dim, output_dim, hidden_dim, bidirectional) ==
    [timesteps |-> timesteps,
     hidden_dim |-> hidden_dim,
     lstm |-> nn_LSTM(input_dim, hidden_dim, 2, bidirectional),
     hidden2out |-> nn_Linear(hidden_dim, output_dim)]

(* LSTMnet.__init__ *)
LSTMnet(timesteps, input_dim, output_dim, hidden_dim, bidirectional) ==
    [timesteps |-> timesteps,
     hidden_dim |-> hidden_dim,
     lstm |-> nn_LSTM(input_dim, hidden_dim, 2, bidirectional),
     hidden2out |-> nn_Linear(IF bidirectional THEN hidden_dim * 2
                              ELSE hidden_dim, output_dim)]

(* A reshape straight to (timesteps, batch_size, width), without the       *)
(* transpose: the element at (s, b, k) of the tensor fed to the LSTM       *)
LSTMnet_Source_NoTranspose(x, timesteps, idx) ==
    LET width == x[2] \div timesteps
    IN Unravel(x, FlatIndex(<<timesteps, x[1], width>>, idx))

(* input_feat.reshape(batch_size, timesteps, width).transpose(0, 1): the   *)
(* index in input_feat of the element at (s, b, k) of the tensor fed to    *)
(* the LSTM                                                                *)
LSTMnet_Source(x, timesteps, idx) ==
    LET width == x[2] \div timesteps
    IN Unravel(x, FlatIndex(<<x[1], timesteps, width>>, <<idx[2], idx[1], idx[3]>>))

(* LSTMnet.forward, by shapes *)
LSTMnet_forward(n, x) ==
    LET batch_size == x[1]
        reshaped == Reshape(x, <<batch_size, n.timesteps, x[2] \div n.timesteps>>)
        transposed == Transpose01(reshaped)
        lstm_out == nn_LSTM_forward(n.lstm, transposed)
        last == IF lstm_out = NoShape THEN NoShape ELSE Tail(lstm_out)
        scores == nn_Linear_forward(n.hidden2out, last)
    IN [status |-> IF scores = NoShape THEN "RuntimeError" ELSE "ok",
        reshaped |-> reshaped, transposed |-> transposed,
        lstm_out |-> lstm_out, last |-> last, out |-> scores]

(* Trainer.__init__: the network it builds *)
LSTM_Trainer(timesteps, input_feat_size, num_classes, hidden_feat_size) ==
    LSTMnet(timesteps, input_feat_size, num_classes, hidden_feat_size, TRUE)

(* LSTMnet.forward in eval mode: one score per class *)
LSTM_Forward(w, x) == [c \in Classes |-> w[c] * x]

(* the samples are fed as they come: (batch_size, feature_dim) *)
LSTM_InputShape(feature_dim) == <<feature_dim>>

(* torch.save(model.state_dict(), checkpoint_path): the new file *)
LSTM_SavedFile(k, w) == StateDict(k, w)

(* model.load_state_dict(torch.load(checkpoint_path)), on either device *)
LSTM_Loaded(f, k, w) ==
    IF f = NoFile THEN [status |-> "FileNotFoundError", w |-> w]
    ELSE LoadStateDict(k, w, f)

LSTM_PredictLabels(w, inputs) ==
    [i \in 1..Len(inputs) |-> ArgMax(LSTM_Forward(w, inputs[i]))]

(* np.sum(pred == Y) / len(Y), as numerator and denominator *)
LSTM_Accuracy(pred, Y) == [num |-> SumEqual(pred, Y), den |-> Len(Y)]

(* A decay that starts one epoch later *)
LSTM_DecayLr_Late(epoch, decay, lr) ==
    IF epoch % decay = 1 % decay THEN [lr EXCEPT !.div = lr.div + 1] ELSE lr

(* if (epoch % decay == 0): lr /= 3 *)
LSTM_DecayLr(epoch, decay, lr) ==
    IF epoch % decay = 0 THEN [lr EXCEPT !.div = lr.div + 1] ELSE lr

(* A log record that counts the epochs from 0 *)
LSTM_LogRecord_ZeroBased(epoch, sum, nb, lr) ==
    [epoch |-> epoch - 1, loss |-> FormatLoss(sum, nb), lr |-> FormatLr(lr)]

LSTM_LogRecord(epoch, sum, nb, lr) ==
    [epoch |-> epoch, loss |-> FormatLoss(sum, nb), lr |-> FormatLr(lr)]

(* The statements of the loop body, in the order of the code *)
LSTM_BatchBody == <<"zero_grad", "forward", "criterion", "backward", "step">>

(* An epoch head that keeps the loss accumulated so far *)
LSTM_EpochHead_KeepLoss(c, epoch, lr) ==
    [c EXCEPT !.epoch = epoch, !.lr = lr, !.i = 0,
              !.batches = <<>>, !.losses = EmptyBag,
              !.momentum = {}]

(* The locals at the head of an epoch *)
LSTM_EpochHead(c, epoch, lr) ==
    [c EXCEPT !.epoch = epoch, !.lr = lr, !.tot_loss = 0, !.i = 0,
              !.batches = <<>>, !.losses = EmptyBag,
              !.momentum = {}]

(* train, up to the loop over the epochs *)
LSTM_train_begin(t, a) ==
    /\ pc = "idle"
    /\ kind[t] = "LSTM"
    /\ targs' = [targs EXCEPT ![t] = a]
    /\ trace' = [trace EXCEPT ![t] = << <<"net.train">> >>]
    /\ net' = [net EXCEPT ![t].mode = "train"]
    /\ call' = [t |-> t, epoch |-> 0, lr |-> [num |-> Lr0, div |-> 0],
                i |-> 0, nb |-> NumBatches(a.N, a.B), tot_loss |-> 0,
                batches |-> <<>>, losses |-> EmptyBag, applied |-> {},
                momentum |-> {}]
    /\ out' = <<>>
    /\ ret' = NoRet
    /\ pc' = "loop"
    /\ UNCHANGED <<kind, fs, logf, snap, dataVars, shapeVars>>

(* head of one epoch: decay, new optimizer, tot_loss = 0.0, a new pass     *)
(* over the trainloader                                                    *)
LSTM_epoch_begin(t) ==
    /\ pc = "loop"
    /\ call.t = t
    /\ kind[t] = "LSTM"
    /\ call.epoch < targs[t].epochs
    /\ LET epoch == call.epoch + 1
           lr == LSTM_DecayLr(epoch, targs[t].decay, call.lr)
       IN /\ call' = LSTM_EpochHead(call, epoch, lr)
          /\ trace' = [trace EXCEPT ![t] =
                 @ \o (IF lr # call.lr THEN << <<"lr /= 3">> >> ELSE <<>>)
                   \o << <<"optim.SGD", lr.div>> >>]
    /\ pc' = "batch"
    /\ UNCHANGED <<kind, net, fs, targs, out, logf, ret, snap, dataVars, shapeVars>>

(* one minibatch the trainloader yields: the loop body on it *)
LSTM_minibatch(t, batch, loss, w) ==
    /\ pc = "batch"
    /\ call.t = t
    /\ kind[t] = "LSTM"
    /\ batch \in DataLoaderBatches(targs[t].N, targs[t].B, Drawn(call.batches))
    /\ LET g == RunBody(LSTM_BatchBody, <<call.epoch, call.i + 1>>,
                        [grad |-> net[t].grad, applied |-> call.applied,
                         momentum |-> call.momentum])
       IN /\ net' = [net EXCEPT ![t].w = w, ![t].grad = g.grad]
          /\ call' = [call EXCEPT !.i = call.i + 1,
                                  !.tot_loss = call.tot_loss + loss,
                                  !.batches = Append(@, batch),
                                  !.losses = @ (+) SetToBag({loss}),
                                  !.applied = g.applied,
                                  !.momentum = g.momentum]
    /\ trace' = [trace EXCEPT ![t] = @ \o BodyEvents(LSTM_BatchBody, LSTM_InputShape(FeatureDim))]
    /\ UNCHANGED <<kind, fs, pc, targs, out, logf, ret, snap, dataVars, shapeVars>>

(* end of one epoch, when the trainloader is exhausted: mean loss, log     *)
(* record                                                                  *)
LSTM_epoch_end(t) ==
    /\ pc = "batch"
    /\ call.t = t
    /\ kind[t] = "LSTM"
    /\ DataLoaderBatches(targs[t].N, targs[t].B, Drawn(call.batches)) = {}
    /\ LET log == LSTM_LogRecord(call.epoch, call.tot_loss, call.nb, call.lr)
       IN /\ out' = IF targs[t].logging THEN Append(out, <<"log", log>>) ELSE out
          /\ logf' = IF targs[t].log_file # None
                     THEN [logf EXCEPT ![targs[t].log_file] = FileAppend(@, log)]
                     ELSE logf
    /\ trace' = [trace EXCEPT ![t] = Append(@, <<"log", call.epoch, call.lr.div>>)]
    /\ pc' = "loop"
    /\ UNCHANGED <<kind, net, fs, call, targs, ret, snap, dataVars, shapeVars>>

(* after the last epoch *)
LSTM_train_end(t) ==
    /\ pc = "loop"
    /\ call.t = t
    /\ kind[t] = "LSTM"
    /\ call.epoch >= targs[t].epochs
    /\ out' = Append(out, <<"Finished Training">>)
    /\ pc' = "idle"
    /\ call' = Idle
    /\ ret' = [NoRet EXCEPT !.op = "train", !.t = t]
    /\ UNCHANGED <<kind, net, fs, targs, trace, logf, snap, dataVars, shapeVars>>

LSTM_predict(t, inputs) ==
    /\ pc = "idle"
    /\ kind[t] = "LSTM"
    /\ net' = [net EXCEPT ![t].mode = "eval"]
    /\ ret' = [NoRet EXCEPT !.op = "predict", !.t = t, !.X = inputs,
                            !.val = LSTM_PredictLabels(net[t].w, inputs)]
    /\ UNCHANGED <<kind, fs, pc, call, targs, trace, out, logf, snap, dataVars, shapeVars>>

LSTM_score(t, X, Y) ==
    /\ pc = "idle"
    /\ kind[t] = "LSTM"
    /\ net' = [net EXCEPT ![t].mode = "eval"]
    /\ LET pred == LSTM_PredictLabels(net[t].w, X)
       IN ret' = [NoRet EXCEPT !.op = "score", !.t = t, !.X = X, !.Y = Y,
                               !.val = LSTM_Accuracy(pred, Y)]
    /\ UNCHANGED <<kind, fs, pc, call, targs, trace, out, logf, snap, dataVars, shapeVars>>

LSTM_save_model(t, checkpoint_path, model) ==
    /\ pc = "idle"
    /\ kind[t] = "LSTM"
    /\ LET m == Target(t, model)
       IN fs' = [fs EXCEPT ![checkpoint_path] = LSTM_SavedFile(kind[m], net[m].w)]
    /\ snap' = [snap EXCEPT ![checkpoint_path] =
                    IF model = None THEN [by |-> t, w |-> net[t].w] ELSE NoSnap]
    /\ ret' = [NoRet EXCEPT !.op = "save_model", !.t = t, !.model = model,
                            !.path = checkpoint_path]
    /\ UNCHANGED <<kind, net, pc, call, targs, trace, out, logf, dataVars, shapeVars>>

LSTM_load_model(t, checkpoint_path, model) ==
    /\ pc = "idle"
    /\ kind[t] = "LSTM"
    /\ LET m == Target(t, model)
           r == LSTM_Loaded(fs[checkpoint_path], kind[m], net[m].w)
       IN /\ net' = [net EXCEPT ![m].w = r.w]
          /\ ret' = [NoRet EXCEPT !.op = "load_model", !.t = t, !.model = model,
                                  !.path = checkpoint_path, !.val = r.status,
                                  !.old = net[m].w]
    /\ UNCHANGED <<kind, fs, pc, call, targs, trace, out, logf, snap, dataVars, shapeVars>>

(* Trainer(...): a new trainer takes the place of t *)
LSTM_init(t, timesteps, input_feat_size, num_classes, hidden_feat_size, w) ==
    /\ pc = "idle"
    /\ kind[t] = "LSTM"
    /\ arch' = [arch EXCEPT ![t] = LSTM_Trainer(timesteps, input_feat_size,
                                                num_classes, hidden_feat_size)]
    /\ net' = [net EXCEPT ![t] = [w |-> w, mode |-> "train", grad |-> {}]]
    /\ targs' = [targs EXCEPT ![t] = NoArgs]
    /\ trace' = [trace EXCEPT ![t] = <<>>]
    /\ fwd' = NoFwd
    /\ UNCHANGED <<kind, fs, pc, call, out, logf, ret, snap, dataVars>>

(* self.net(inputs) on n samples of feature_dim features each *)
LSTM_net_call(t, n, feature_dim) ==
    /\ pc = "idle"
    /\ kind[t] = "LSTM"
    /\ LET x == <<n>> \o LSTM_InputShape(feature_dim)
       IN fwd' = [t |-> t, x |-> x, r |-> LSTMnet_forward(arch[t], x)]
    /\ UNCHANGED <<arch, trainerVars, dataVars>>

----------------------------------------------------------------------------
(* Initial states and specifications *)

Trees == SeqsUpTo(DataVals, MaxTree)

ZeroW == [c \in Classes |-> 0]

(* A data file with four records in each tree *)
SmallFile == [sig |-> <<"a", "b", "a", "a">>, bkg |-> <<"b", "a", "b", "b">>]

(* A line left in the log file by an earlier run *)
OldLine == [epoch |-> 0, loss |-> 0, lr |-> 0]

TrainArgs ==
    [epochs : 0..MaxEpochs, decay : 1..(MaxEpochs + 1), N : 1..MaxN,
     B : 1..MaxB, logging : BOOLEAN, log_file : {None} \cup LogPaths]

(* The arguments of the notebooks' smallest training run *)
TinyArgs == [epochs |-> 1, decay |-> 1, N |-> 1, B |-> 1,
             logging |-> TRUE, log_file |-> None]

(* Non-empty inputs of predict, and label vectors of the same length *)
Inputs == SeqsUpTo(Samples, MaxBatch) \ {<<>>}

LabelsFor(X) == [1..Len(X) -> Classes]

(* The networks the notebooks construct *)
InitShape ==
    /\ arch = [t \in Trainers |->
                 IF kind[t] = "CNN"
                 THEN CNN_Trainer(ImgSize, NumClasses, InFilters, Filters, KernelSize)
                 ELSE LSTM_Trainer(Timesteps, InputFeatSize, NumClasses, HiddenFeatSize)]
    /\ fwd = NoFwd

InitIdle ==
    /\ fs = [p \in CkptPaths |-> NoFile]
    /\ pc = "idle"
    /\ call = Idle
    /\ trace = [t \in Trainers |-> <<>>]
    /\ out = <<>>
    /\ ret = NoRet
    /\ snap = [p \in CkptPaths |-> NoSnap]

InitNoData ==
    /\ file = SmallFile
    /\ rng = RngSeed(0)
    /\ ds = NoDataset
    /\ memo = [s \in Splits |-> NoCall]

(* get_dataset on any file *)
InitData ==
    /\ file \in [sig : Trees, bkg : Trees]
    /\ rng \in 0..(RngMod - 1)
    /\ ds = NoDataset
    /\ memo = [s \in Splits |-> NoCall]
    /\ InitIdle
    /\ kind = [t \in Trainers |-> IF t = "A" THEN "CNN" ELSE "LSTM"]
    /\ net = [t \in Trainers |-> [w |-> ZeroW, mode |-> "train", grad |-> {}]]
    /\ targs = [t \in Trainers |-> NoArgs]
    /\ logf = [p \in LogPaths |-> <<>>]
    /\ InitShape

NextData == \E s \in Splits : get_dataset(s)

SpecData == InitData /\ [][NextData]_vars

(* get_dataset with a test_split at or just outside a limit, on files with *)
(* any signal tree                                                         *)
InitSplit ==
    /\ file \in [sig : Trees, bkg : {SmallFile.bkg}]
    /\ rng \in 0..(RngMod - 1)
    /\ ds = NoDataset
    /\ memo = [s \in EdgeSplits |-> NoCall]
    /\ InitIdle
    /\ kind = [t \in Trainers |-> IF t = "A" THEN "CNN" ELSE "LSTM"]
    /\ net = [t \in Trainers |-> [w |-> ZeroW, mode |-> "train", grad |-> {}]]
    /\ targs = [t \in Trainers |-> NoArgs]
    /\ logf = [p \in LogPaths |-> <<>>]
    /\ InitShape

NextSplit == \E s \in EdgeSplits : get_dataset(s)

SpecSplit == InitSplit /\ [][NextSplit]_vars

(* predict and score of a CNN trainer and an LSTM trainer that hold the    *)
(* same weights, for any weights                                           *)
InitEval ==
    /\ InitNoData
    /\ InitIdle
    /\ kind = [t \in Trainers |-> IF t = "A" THEN "CNN" ELSE "LSTM"]
    /\ \E w \in ParamSet : net = [t \in Trainers |-> [w |-> w, mode |-> "train", grad |-> {}]]
    /\ targs = [t \in Trainers |-> NoArgs]
    /\ logf = [p \in LogPaths |-> <<>>]
    /\ InitShape

NextEval ==
    \E t \in Trainers, X \in Inputs :
        \/ CNN_predict(t, X)
        \/ LSTM_predict(t, X)
        \/ \E Y \in LabelsFor(X) : CNN_score(t, X, Y)
        \/ \E Y \in LabelsFor(X) : LSTM_score(t, X, Y)

SpecEval == InitEval /\ [][NextEval]_vars

(* one train call, of the CNN trainer or of the LSTM trainer, with any     *)
(* arguments; every minibatch has the smallest or the largest loss, and    *)
(* the trainloader yields the samples in the order of the data set         *)
InitTrain ==
    /\ InitNoData
    /\ InitIdle
    /\ kind = [t \in Trainers |-> IF t = "A" THEN "CNN" ELSE "LSTM"]
    /\ net = [t \in Trainers |-> [w |-> ZeroW, mode |-> "train", grad |-> {}]]
    /\ \E a \in TrainArgs : targs = [t \in Trainers |-> a]
    /\ logf \in [LogPaths -> {<<>>, <<OldLine>>}]
    /\ InitShape

OneW == [c \in Classes |-> MaxWeight]

(* Every minibatch the trainloader of t's call may yield next *)
AnyBatch(t) ==
    SUBSET (1..targs[t].N)

(* The minibatch of the samples left that come first in the data set *)
FirstBatch(t) ==
    LET left == (1..targs[t].N) \ Drawn(call.batches)
    IN {x \in left : Cardinality({y \in left : y < x}) < targs[t].B}

NeverTrained == \A u \in Trainers : trace[u] = <<>>

NextTrain ==
    \E t \in Trainers :
        \/ NeverTrained /\ CNN_train_begin(t, targs[t])
        \/ NeverTrained /\ LSTM_train_begin(t, targs[t])
        \/ CNN_epoch_begin(t)
        \/ LSTM_epoch_begin(t)
        \/ \E loss \in {0, MaxLoss} : CNN_minibatch(t, FirstBatch(t), loss, OneW)
        \/ \E loss \in {0, MaxLoss} : LSTM_minibatch(t, FirstBatch(t), loss, OneW)
        \/ CNN_epoch_end(t)
        \/ LSTM_epoch_end(t)
        \/ CNN_train_end(t)
        \/ LSTM_train_end(t)

SpecTrain == InitTrain /\ [][NextTrain]_vars

(* one train call, of the CNN trainer or of the LSTM trainer, that prints  *)
(* its records, for any epochs, number of samples and batch size and any   *)
(* loss of each minibatch                                                  *)
LossArgs ==
    [epochs : 0..MaxEpochs, decay : {MaxEpochs + 1}, N : 1..(MaxN + 1),
     B : 1..MaxB, logging : {TRUE}, log_file : {None}]

InitLoss ==
    /\ InitNoData
    /\ InitIdle
    /\ kind = [t \in Trainers |-> IF t = "A" THEN "CNN" ELSE "LSTM"]
    /\ net = [t \in Trainers |-> [w |-> ZeroW, mode |-> "train", grad |-> {}]]
    /\ \E a \in LossArgs : targs = [t \in Trainers |-> a]
    /\ logf = [p \in LogPaths |-> <<>>]
    /\ InitShape

NextLoss ==
    \E t \in Trainers :
        \/ NeverTrained /\ CNN_train_begin(t, targs[t])
        \/ NeverTrained /\ LSTM_train_begin(t, targs[t])
        \/ CNN_epoch_begin(t)
        \/ LSTM_epoch_begin(t)
        \/ \E loss \in 0..MaxLoss : CNN_minibatch(t, FirstBatch(t), loss, OneW)
        \/ \E loss \in 0..MaxLoss : LSTM_minibatch(t, FirstBatch(t), loss, OneW)
        \/ CNN_epoch_end(t)
        \/ LSTM_epoch_end(t)
        \/ CNN_train_end(t)
        \/ LSTM_train_end(t)

SpecLoss == InitLoss /\ [][NextLoss]_vars

(* one train call, of the CNN trainer or of the LSTM trainer, that prints  *)
(* and writes no record, for any epochs, number of samples and batch size  *)
(* and any order in which the trainloader yields the samples; the          *)
(* interpreter runs a call to its end                                      *)
LoaderArgs ==
    [epochs : 0..MaxEpochs, decay : {1, MaxEpochs + 1}, N : 1..(MaxN + 1),
     B : 1..MaxB, logging : {FALSE}, log_file : {None}]

InitLoader ==
    /\ InitNoData
    /\ InitIdle
    /\ kind = [t \in Trainers |-> IF t = "A" THEN "CNN" ELSE "LSTM"]
    /\ net = [t \in Trainers |-> [w |-> ZeroW, mode |-> "train", grad |-> {}]]
    /\ \E a \in LoaderArgs : targs = [t \in Trainers |-> a]
    /\ logf = [p \in LogPaths |-> <<>>]
    /\ InitShape

NextLoader ==
    \E t \in Trainers :
        \/ NeverTrained /\ CNN_train_begin(t, targs[t])
        \/ NeverTrained /\ LSTM_train_begin(t, targs[t])
        \/ CNN_epoch_begin(t)
        \/ LSTM_epoch_begin(t)
        \/ \E b \in AnyBatch(t) : CNN_minibatch(t, b, MaxLoss, OneW)
        \/ \E b \in AnyBatch(t) : LSTM_minibatch(t, b, MaxLoss, OneW)
        \/ CNN_epoch_end(t)
        \/ LSTM_epoch_end(t)
        \/ CNN_train_end(t)
        \/ LSTM_train_end(t)

SpecLoader == InitLoader /\ [][NextLoader]_vars /\ WF_vars(NextLoader)

(* one train call of the CNN trainer and one of the LSTM trainer, in any   *)
(* order, both with the same arguments                                     *)
NextPair ==
    \E t \in Trainers :
        \/ trace[t] = <<>> /\ CNN_train_begin(t, targs[t])
        \/ trace[t] = <<>> /\ LSTM_train_begin(t, targs[t])
        \/ CNN_epoch_begin(t)
        \/ LSTM_epoch_begin(t)
        \/ CNN_minibatch(t, FirstBatch(t), MaxLoss, OneW)
        \/ LSTM_minibatch(t, FirstBatch(t), MaxLoss, OneW)
        \/ CNN_epoch_end(t)
        \/ LSTM_epoch_end(t)
        \/ CNN_train_end(t)
        \/ LSTM_train_end(t)

SpecPair == InitTrain /\ [][NextPair]_vars

(* construction of CNN and LSTM trainers with any small arguments, and    *)
(* forward passes through their networks                                   *)
InitShapes ==
    /\ InitNoData
    /\ InitIdle
    /\ kind = [t \in Trainers |-> IF t = "A" THEN "CNN" ELSE "LSTM"]
    /\ net = [t \in Trainers |-> [w |-> ZeroW, mode |-> "train", grad |-> {}]]
    /\ targs = [t \in Trainers |-> NoArgs]
    /\ logf = [p \in LogPaths |-> <<>>]
    /\ InitShape

(* kernel sizes tried: the default 3, a smaller and a larger one *)
KernelSizes == {1, 3, 5}

(* in_filters tried: the default 1 and the 3 channels of a colour image *)
InFilterChoices == {InFilters, 3}

(* feature_dim of the inputs tried: every product of a timesteps and an    *)
(* input_feat_size, the 300 features of the notebook, and 5                *)
FeatureDims == {t * f : t, f \in 1..MaxT} \cup {FeatureDim, 5}

NextShapes ==
    \E t \in Trainers :
        \/ \E imgsize \in 1..MaxImg, filters \in 1..MaxFilters,
              kernel_size \in KernelSizes, in_filters \in InFilterChoices :
              CNN_init(t, imgsize, NumClasses, in_filters, filters, kernel_size, ZeroW)
        \/ \E n \in 1..MaxBatch : CNN_net_call(t, n)
        \/ \E timesteps \in 1..MaxT, input_feat_size \in 1..MaxT,
              hidden_feat_size \in 1..MaxHidden :
              LSTM_init(t, timesteps, input_feat_size, NumClasses, hidden_feat_size, ZeroW)
        \/ \E n \in 1..MaxBatch, feature_dim \in FeatureDims :
              LSTM_net_call(t, n, feature_dim)

SpecShapes == InitShapes /\ [][NextShapes]_vars

(* Weights that prefer one class *)
OneHot == {[c \in Classes |-> IF c = d THEN 1 ELSE 0] : d \in Classes}

(* all operations of two trainers, checkpoints and get_dataset; every      *)
(* optimizer step leads to weights that prefer one class                   *)
Init ==
    /\ InitNoData
    /\ InitIdle
    /\ kind \in [Trainers -> Kinds]
    /\ net = [t \in Trainers |-> [w |-> ZeroW, mode |-> "train", grad |-> {}]]
    /\ targs = [t \in Trainers |-> NoArgs]
    /\ logf = [p \in LogPaths |-> <<>>]
    /\ InitShape

Next ==
    \/ get_dataset(30)
    \/ \E t \in Trainers :
        \/ CNN_train_begin(t, TinyArgs)
        \/ LSTM_train_begin(t, TinyArgs)
        \/ CNN_epoch_begin(t)
        \/ LSTM_epoch_begin(t)
        \/ \E w \in OneHot : CNN_minibatch(t, FirstBatch(t), 0, w)
        \/ \E w \in OneHot : LSTM_minibatch(t, FirstBatch(t), 0, w)
        \/ CNN_epoch_end(t)
        \/ LSTM_epoch_end(t)
        \/ CNN_train_end(t)
        \/ LSTM_train_end(t)
        \/ CNN_predict(t, <<0, MaxFeature>>)
        \/ LSTM_predict(t, <<0, MaxFeature>>)
        \/ CNN_score(t, <<0, MaxFeature>>, <<0, 0>>)
        \/ LSTM_score(t, <<0, MaxFeature>>, <<0, 0>>)
        \/ \E p \in CkptPaths, m \in {None} \cup Trainers :
              \/ CNN_save_model(t, p, m)
              \/ LSTM_save_model(t, p, m)
              \/ CNN_load_model(t, p, m)
              \/ LSTM_load_model(t, p, m)

Spec == Init /\ [][Next]_vars

----------------------------------------------------------------------------
(* Properties of get_dataset, checked under SpecData *)

(* C1: get_dataset is deterministic: any call returns what the first call  *)
(* with the same file and the same test_split returned, whatever the state *)
(* of the numpy generator before the call.                                 *)
C1_Deterministic ==
    ds.status # "none" => Returned(ds) = memo[ds.split].ret

(* A later call that returned a shuffled data set although it started from *)
(* another generator state than the first call with that test_split.       *)
C1_Witness ==
    /\ ds.status = "ok"
    /\ memo[ds.split].seeded
    /\ ds.pre # RngSeed(0)
    /\ Len(ds.X_train) >= 3
    /\ Len(ds.X_test) >= 2
    /\ ds.Y_train # Repeat(0, ds.parts[1].train) \o Repeat(1, ds.parts[2].train)

(* C2: for every accepted test_split every tree of n records contributes   *)
(* exactly int(n * test_split) records to the test set and the other       *)
(* n - int(n * test_split) records to the training set.                    *)
C2_SplitFraction ==
    ds.status \notin {"none", "precondition"} =>
        \A i \in 1..Len(ds.parts) :
            /\ ds.parts[i].test = TestSize(ds.parts[i].n, ds.split)
            /\ ds.parts[i].train = ds.parts[i].n - TestSize(ds.parts[i].n, ds.split)

(* C3: whenever get_dataset returns, the (sample, label) pairs of train    *)
(* and test together are exactly the records of the file, signal records   *)
(* tagged 0 and background records tagged 1, as multisets.                 *)
C3_Conservation ==
    ds.status = "ok" =>
        /\ Len(ds.X_train) = Len(ds.Y_train)
        /\ Len(ds.X_test) = Len(ds.Y_test)
        /\ PairBag(ds.X_train, ds.Y_train) (+) PairBag(ds.X_test, ds.Y_test)
             = PairBag(file.sig, Repeat(0, Len(file.sig)))
               (+) PairBag(file.bkg, Repeat(1, Len(file.bkg)))

(* A returned data set with both labels in train and in test, from a file  *)
(* whose two trees hold a common sample value and a repeated one.          *)
C3_Witness ==
    /\ ds.status = "ok"
    /\ {ds.Y_test[i] : i \in 1..Len(ds.Y_test)} = Labels
    /\ {ds.Y_train[i] : i \in 1..Len(ds.Y_train)} = Labels
    /\ \E i \in 1..Len(file.sig), j \in 1..Len(file.bkg) : file.sig[i] = file.bkg[j]
    /\ \E i, j \in 1..Len(file.sig) : i # j /\ file.sig[i] = file.sig[j]
    /\ ds.X_train # Concatenate(<<PySliceTo(file.sig, 0 - ds.parts[1].test_size),
                                   PySliceTo(file.bkg, 0 - ds.parts[2].test_size)>>)

(* C13: after an accepted test_split the length assertions of get_dataset *)
(* hold, whatever the sizes of the two trees and also when a tree's       *)
(* int(n * test_split) is 0: no call ends in their AssertionError.         *)
C13_AssertionsHold ==
    (ds.status # "none" /\ SplitAccepted(ds.split)) =>
        /\ ds.status # "AssertionError"
        /\ Len(ds.Y_train) = Len(ds.X_train)
        /\ Len(ds.Y_test) = Len(ds.X_test)

(* C14: a test_split outside [0, 0.3] is rejected by the first assertion,  *)
(* before the data file is read and before the generator is re-seeded: the *)
(* call returns nothing and leaves the generator as it was; 0 and 0.3 are  *)
(* accepted.  Checked under SpecSplit.                                     *)
C14_SplitPrecondition ==
    ds.status # "none" =>
        /\ (ds.split < 0 \/ ds.split > 30) <=> (ds.status = "precondition")
        /\ ds.status = "precondition" =>
              /\ ~ds.read
              /\ rng = ds.pre
              /\ Returned(ds) = <<"precondition">>
        /\ ds.split \in {0, 30} =>
              /\ ds.read
              /\ ds.status \in {"ok", "ValueError", "AssertionError"}

(* A call with test_split 0.31 was rejected after a call with 0.3 had      *)
(* returned a data set; the generator is not in its seeded state.          *)
C14_Witness ==
    /\ ds.status = "precondition"
    /\ ds.split = 31
    /\ rng # RngSeed(0)
    /\ memo[30].ret # <<>>
    /\ memo[30].ret[1] = "ok"
    /\ memo[0 - 1].ret = <<"precondition">>

----------------------------------------------------------------------------
(* Properties of the Trainer classes *)

ForwardOf(t, w, x) ==
    IF kind[t] = "CNN" THEN CNN_Forward(w, x) ELSE LSTM_Forward(w, x)

PredictOf(t, w, X) ==
    IF kind[t] = "CNN" THEN CNN_PredictLabels(w, X) ELSE LSTM_PredictLabels(w, X)

(* C4: the first `decay` epochs run at the initial learning rate and the   *)
(* rate is divided by 3 only after each further block of `decay` epochs:   *)
(* during epoch e it has been divided floor((e - 1) / decay) times.        *)
C4_DecayAfterBlock ==
    pc = "batch" =>
        call.lr.div = (call.epoch - 1) \div targs[call.t].decay

(* C5: predict returns one label per input sample, in input order, each    *)
(* the lowest index of the largest of the sample's class scores.           *)
C5_PredictArgMax ==
    ret.op = "predict" =>
        /\ Len(ret.val) = Len(ret.X)
        /\ \A i \in 1..Len(ret.X) :
             LET scores == ForwardOf(ret.t, net[ret.t].w, ret.X[i])
                 label == ret.val[i]
             IN /\ label \in Classes
                /\ \A c \in Classes : scores[c] <= scores[label]
                /\ \A c \in Classes : c < label => scores[c] < scores[label]

(* A prediction for two samples, the first with tied scores and the second *)
(* with the largest score at a class other than 0.                         *)
C5_Witness ==
    /\ ret.op = "predict"
    /\ Len(ret.X) = 2
    /\ ret.X[1] # ret.X[2]
    /\ ret.val = <<0, 1>>
    /\ \A c \in Classes : ForwardOf(ret.t, net[ret.t].w, ret.X[1])[c] = 0

(* C6: score returns the number of positions where the prediction equals   *)
(* the label, over len(Y); it lies in [0, 1], is 1 exactly when all        *)
(* predictions match and 0 exactly when none does.                         *)
C6_ScoreAccuracy ==
    ret.op = "score" =>
        LET pred == PredictOf(ret.t, net[ret.t].w, ret.X)
            hits == {i \in 1..Len(ret.Y) : pred[i] = ret.Y[i]}
        IN /\ ret.val.num = Cardinality(hits)
           /\ ret.val.den = Len(ret.Y)
           /\ 0 <= ret.val.num /\ ret.val.num <= ret.val.den
           /\ (ret.val.num = ret.val.den) <=> (hits = 1..Len(ret.Y))
           /\ (ret.val.num = 0) <=> (hits = {})

(* A score of 1/2: one of two predictions matches.                         *)
C6_Witness ==
    /\ ret.op = "score"
    /\ Len(ret.Y) = 2
    /\ ret.val = [num |-> 1, den |-> 2]
    /\ PredictOf(ret.t, net[ret.t].w, ret.X)[2] = ret.Y[2]

(* C7: load_model(p) by the trainer whose save_model(p) was the last write *)
(* to p restores the parameters it had at the save, and so its predictions.*)
C7_RoundTrip ==
    (/\ ret.op = "load_model"
     /\ ret.model = None
     /\ snap[ret.path].by = ret.t) =>
        /\ ret.val = "ok"
        /\ net[ret.t].w = snap[ret.path].w
        /\ \A X \in Inputs :
             PredictOf(ret.t, net[ret.t].w, X) = PredictOf(ret.t, snap[ret.path].w, X)

(* A load that undid a training which had followed the save.               *)
C7_Witness ==
    /\ ret.op = "load_model"
    /\ ret.model = None
    /\ snap[ret.path].by = ret.t
    /\ ret.old # net[ret.t].w
    /\ net[ret.t].w # ZeroW
    /\ trace[ret.t] # <<>>

(* The records printed so far are those of epochs 1..k, in order *)
LogsUpTo(k) ==
    /\ Len(out) >= k
    /\ \A e \in 1..k : out[e][1] = "log" /\ out[e][2].epoch = e

(* The number of optimizer steps before the k-th log record of a trace *)
RECURSIVE StepsBeforeLog(_, _)
StepsBeforeLog(tr, k) ==
    IF tr = <<>> THEN 0
    ELSE IF Head(tr)[1] = "log"
         THEN (IF k = 1 THEN 0 ELSE StepsBeforeLog(Tail(tr), k - 1))
         ELSE (IF Head(tr)[1] = "step" THEN 1 ELSE 0) + StepsBeforeLog(Tail(tr), k)

(* C8: with logging=True a train call of E epochs prints one record at the *)
(* end of each epoch, after all its minibatches, with epoch = 1, ..., E in *)
(* order, then 'Finished Training' once; with E = 0 it prints only         *)
(* 'Finished Training' and updates no parameter.                           *)
C8_EpochLogging ==
    /\ (pc # "idle" /\ targs[call.t].logging) =>
          LET done == IF pc = "loop" THEN call.epoch ELSE call.epoch - 1
          IN /\ Len(out) = done
             /\ LogsUpTo(done)
             /\ \A e \in 1..done :
                    StepsBeforeLog(trace[call.t], e) = e * call.nb
    /\ (pc = "idle" /\ ret.op = "train" /\ targs[ret.t].logging) =>
          LET E == targs[ret.t].epochs
          IN /\ Len(out) = E + 1
             /\ LogsUpTo(E)
             /\ out[E + 1] = <<"Finished Training">>
             /\ E = 0 => net[ret.t].w = ZeroW

(* A finished call of at least two epochs of two minibatches each.         *)
C8_Witness ==
    /\ pc = "idle"
    /\ ret.op = "train"
    /\ targs[ret.t].logging
    /\ targs[ret.t].epochs >= 2
    /\ NumBatches(targs[ret.t].N, targs[ret.t].B) = 2
    /\ Len(out) = targs[ret.t].epochs + 1
    /\ net[ret.t].w # ZeroW

(* The framework calls of a trace without the shapes of the samples *)
RECURSIVE Events(_)
Events(tr) ==
    IF tr = <<>> THEN <<>>
    ELSE IF Head(tr)[1] = "reshape" THEN Events(Tail(tr))
    ELSE IF Head(tr)[1] = "forward" THEN << <<"forward">> >> \o Events(Tail(tr))
    ELSE <<Head(tr)>> \o Events(Tail(tr))

(* C9: with equal arguments the CNN trainer's and the LSTM trainer's train *)
(* make the same optimizer constructions, steps, learning-rate divisions   *)
(* and log records; score, save_model and load_model give the same         *)
(* results; only the CNN reshapes the samples.                             *)
C9_SameTrainer ==
    (/\ pc = "idle"
     /\ \A t \in Trainers : trace[t] # <<>>
     /\ \A t, u \in Trainers : targs[t] = targs[u]) =>
        /\ \A t, u \in Trainers : Events(trace[t]) = Events(trace[u])
        /\ \A X \in Inputs, w \in ParamSet :
              /\ CNN_PredictLabels(w, X) = LSTM_PredictLabels(w, X)
              /\ \A Y \in LabelsFor(X) :
                    CNN_Accuracy(CNN_PredictLabels(w, X), Y)
                      = LSTM_Accuracy(LSTM_PredictLabels(w, X), Y)
        /\ \A k \in Kinds, w, v \in ParamSet :
              /\ CNN_SavedFile(k, w) = LSTM_SavedFile(k, w)
              /\ \A f \in {NoFile} \cup {StateDict(j, v) : j \in Kinds} :
                    CNN_Loaded(f, k, w) = LSTM_Loaded(f, k, w)

(* Both trainers have finished a call of two epochs or more in which the   *)
(* learning rate was divided; the CNN trace alone has a reshape.           *)
C9_Witness ==
    /\ pc = "idle"
    /\ \A t \in Trainers : trace[t] # <<>>
    /\ \E t, u \in Trainers :
          /\ kind[t] = "CNN" /\ kind[u] = "LSTM"
          /\ targs[t].epochs >= 2
          /\ targs[t].decay <= targs[t].epochs
          /\ \E i \in 1..Len(trace[u]) : trace[u][i] = <<"lr /= 3">>
          /\ \E i \in 1..Len(trace[t]) : trace[t][i][1] = "reshape"
          /\ trace[t] # trace[u]

(* A step of a call on trainer a with the default model argument; the    *)
(* arguments of the call are read off the step                             *)
DefaultCallOn(a) ==
    \/ CNN_train_begin(a, targs'[a]) \/ LSTM_train_begin(a, targs'[a])
    \/ CNN_epoch_begin(a) \/ LSTM_epoch_begin(a)
    \/ CNN_minibatch(a, Drawn(call'.batches) \ Drawn(call.batches),
                     call'.tot_loss - call.tot_loss, net'[a].w)
    \/ LSTM_minibatch(a, Drawn(call'.batches) \ Drawn(call.batches),
                      call'.tot_loss - call.tot_loss, net'[a].w)
    \/ CNN_epoch_end(a) \/ LSTM_epoch_end(a)
    \/ CNN_train_end(a) \/ LSTM_train_end(a)
    \/ ret'.op = "predict" /\ (CNN_predict(a, ret'.X) \/ LSTM_predict(a, ret'.X))
    \/ ret'.op = "score" /\ (\/ CNN_score(a, ret'.X, ret'.Y)
                              \/ LSTM_score(a, ret'.X, ret'.Y))
    \/ \E p \in CkptPaths :
          \/ CNN_save_model(a, p, None) \/ LSTM_save_model(a, p, None)
          \/ CNN_load_model(a, p, None) \/ LSTM_load_model(a, p, None)

(* Trainer b keeps its parameters, its mode and its label for every sample *)
Untouched(b) ==
    /\ net'[b] = net[b]
    /\ \A x \in Samples :
          PredictOf(b, net'[b].w, <<x>>) = PredictOf(b, net[b].w, <<x>>)

(* C10: no operation on trainer a with model=None changes the parameters,  *)
(* the mode or the predictions of another trainer b, and get_dataset       *)
(* changes no trainer.                                                     *)
C10_NoSharedState ==
    [][ /\ \A a \in Trainers :
              \/ \A b \in Trainers \ {a} : Untouched(b)
              \/ ~DefaultCallOn(a)
        /\ net' = net \/ ~get_dataset(ds'.split)
      ]_vars

(* A load on one trainer while the other holds other, trained parameters   *)
(* and is in eval mode.                                                    *)
C10_Witness ==
    /\ ret.op = "load_model"
    /\ ret.model = None
    /\ ret.val = "ok"
    /\ ret.old # net[ret.t].w
    /\ \E b \in Trainers \ {ret.t} :
          /\ net[b].w # net[ret.t].w
          /\ net[b].w # ZeroW
          /\ net[b].mode # net[ret.t].mode

----------------------------------------------------------------------------
(* Properties of the networks' shapes, checked under SpecShapes *)

(* C11: whatever its constructor arguments, the LSTM Trainer builds an     *)
(* LSTM of 2 layers and 2 directions, and the tensor its forward pass      *)
(* hands to the linear layer is as wide as that layer's input, 2 *         *)
(* hidden_dim, so that the pass yields num_classes scores per sample.      *)
C11_BidirectionalWidth ==
    /\ \A t \in Trainers : kind[t] = "LSTM" =>
          /\ arch[t].lstm.num_layers = 2
          /\ arch[t].lstm.bidirectional
          /\ arch[t].hidden2out.in_features = 2 * arch[t].hidden_dim
    /\ (fwd.t # None /\ kind[fwd.t] = "LSTM" /\ fwd.r.lstm_out # NoShape) =>
          /\ fwd.r.last = <<fwd.x[1], 2 * arch[fwd.t].hidden_dim>>
          /\ fwd.r.last[2] = arch[fwd.t].hidden2out.in_features
          /\ fwd.r.status = "ok"
          /\ fwd.r.out = <<fwd.x[1], NumClasses>>

(* A forward pass of two samples through a constructed LSTM network with   *)
(* hidden_dim 2 and more than one timestep.                                *)
C11_Witness ==
    /\ fwd.t # None
    /\ kind[fwd.t] = "LSTM"
    /\ arch[fwd.t].hidden_dim = 2
    /\ arch[fwd.t].timesteps = 2
    /\ fwd.x[1] = 2
    /\ fwd.r.last = <<2, 4>>
    /\ fwd.r.out = <<2, NumClasses>>

(* C19: for an input of feature_dim = timesteps * input_feat_size the      *)
(* LSTM forward pass reshapes (batch_size, feature_dim) to (batch_size,    *)
(* timesteps, feature_dim // timesteps) and then to (timesteps,            *)
(* batch_size, feature_dim // timesteps); every element of the input is at *)
(* exactly one place of the result (timestep s of sample b holds b's       *)
(* features s * width .. s * width + width - 1), and the width is the      *)
(* input_dim the LSTM was built with.                                      *)
C19_ReshapeKeepsElements ==
    (/\ fwd.t # None
     /\ kind[fwd.t] = "LSTM"
     /\ fwd.x[2] = arch[fwd.t].timesteps * arch[fwd.t].lstm.input_size) =>
        LET n == fwd.x[1]
            feature_dim == fwd.x[2]
            T == arch[fwd.t].timesteps
            width == feature_dim \div T
            src == [idx \in Indices(fwd.r.transposed) |->
                       LSTMnet_Source(fwd.x, T, idx)]
        IN /\ fwd.r.reshaped = <<n, T, width>>
           /\ fwd.r.transposed = <<T, n, width>>
           /\ width = arch[fwd.t].lstm.input_size
           /\ fwd.r.lstm_out # NoShape
           /\ DOMAIN src = Indices(<<T, n, width>>)
           /\ Cardinality(DOMAIN src) = n * feature_dim
           /\ \A e \in Indices(<<n, feature_dim>>) :
                 src[<<e[2] \div width, e[1], e[2] % width>>] = e
           /\ \A idx \in DOMAIN src :
                 src[idx] = <<idx[2], idx[1] * width + idx[3]>>

(* A pass of two samples of four features through a network built with     *)
(* two timesteps of width two: the second timestep of the first sample     *)
(* ends with that sample's last feature.                                   *)
C19_Witness ==
    /\ fwd.t # None
    /\ kind[fwd.t] = "LSTM"
    /\ fwd.x = <<2, 4>>
    /\ arch[fwd.t].timesteps = 2
    /\ arch[fwd.t].lstm.input_size = 2
    /\ fwd.r.transposed = <<2, 2, 2>>
    /\ LSTMnet_Source(fwd.x, 2, <<1, 0, 1>>) = <<0, 3>>
    /\ fwd.r.status = "ok"

(* C20: for every imgsize, filters and kernel_size the CNN Trainer is      *)
(* constructed with (in_filters at its default), the two convolution       *)
(* blocks hand on filters * imgsize^2 features per sample, the input width *)
(* of the first linear layer, and the forward pass yields num_classes      *)
(* scores per sample.                                                      *)
C20_FlatFeatures ==
    (/\ fwd.t # None
     /\ kind[fwd.t] = "CNN"
     /\ arch[fwd.t].conv1.c1.in_channels = InFilters) =>
        /\ fwd.r.conv2 # NoShape
        /\ num_flat_features(fwd.r.conv2) = arch[fwd.t].fc1.in_features
        /\ fwd.r.flat = <<fwd.x[1], arch[fwd.t].fc1.in_features>>
        /\ fwd.r.status = "ok"
        /\ fwd.r.out = <<fwd.x[1], NumClasses>>

(* C21: whatever in_filters the CNN Trainer is constructed with, the       *)
(* tensor that train and predict feed to the network has as many channels  *)
(* as the first convolution was built for, and that convolution takes it.  *)
C21_InputChannels ==
    (fwd.t # None /\ kind[fwd.t] = "CNN") =>
        /\ Tail(fwd.x) = CNN_Reshape(arch[fwd.t].imgsize)
        /\ fwd.x[2] = arch[fwd.t].conv1.c1.in_channels
        /\ (arch[fwd.t].imgsize + 2 >= arch[fwd.t].conv1.c1.kernel_size) =>
              fwd.r.conv1 # NoShape

----------------------------------------------------------------------------
(* Properties of Trainer.train, checked under SpecTrain *)

(* The learning rate of epoch e of a call: the loop head run e times *)
RECURSIVE LrOfEpoch(_, _, _, _)
LrOfEpoch(k, e, decay, lr) ==
    IF e = 0 THEN lr
    ELSE IF k = "CNN" THEN CNN_DecayLr(e, decay, LrOfEpoch(k, e - 1, decay, lr))
    ELSE LSTM_DecayLr(e, decay, LrOfEpoch(k, e - 1, decay, lr))

(* The events of a trace that carry a learning rate *)
IsLrEvent(ev) == ev[1] \in {"optim.SGD", "log"}

RECURSIVE BagSum(_)
BagSum(b) ==
    IF DOMAIN b = {} THEN 0
    ELSE LET x == CHOOSE y \in DOMAIN b : TRUE
         IN x * b[x] + BagSum([y \in DOMAIN b \ {x} |-> b[y]])

(* C15: the loss logged for an epoch is the sum of the losses of that      *)
(* epoch's minibatches over the number of these minibatches, whatever      *)
(* their sizes; losses of earlier epochs do not enter it.  Checked under   *)
(* SpecLoss on the record printed at the end of each epoch.                *)
C15_MeanLoss ==
    (pc = "loop" /\ call.epoch >= 1) =>
        LET log == out[Len(out)][2]
        IN /\ log.epoch = call.epoch
           /\ BagCardinality(call.losses) = Len(call.batches)
           /\ log.loss = FormatLoss(BagSum(call.losses), Len(call.batches))
           /\ log.loss >= 0
           /\ log.loss <= MaxLoss * 10000000
           /\ BagSum(call.losses) = 0 <=> log.loss = 0

(* The end of a second epoch of two minibatches, the last one smaller,     *)
(* with losses 0 and MaxLoss, after a first epoch with another mean loss:  *)
(* the record shows MaxLoss / 2.                                           *)
C15_Witness ==
    /\ pc = "loop"
    /\ call.epoch = 2
    /\ Len(call.batches) = 2
    /\ Cardinality(call.batches[2]) < Cardinality(call.batches[1])
    /\ call.losses = SetToBag({0, MaxLoss})
    /\ out[1][2].loss = MaxLoss * 10000000
    /\ out[2][2].loss = MaxLoss * 5000000

(* C16: in every minibatch the calls come in the order zero_grad, forward, *)
(* loss, backward, step, the gradients are zeroed before every backward,   *)
(* and what an optimizer step applies is the gradient of the current       *)
(* minibatch alone, not of an earlier minibatch or epoch.  Checked under   *)
(* SpecLoss.                                                               *)
C16_GradientPerMinibatch ==
    /\ \A t \in Trainers :
          LET tr == trace[t]
          IN \A k \in 1..Len(tr) :
                /\ tr[k][1] = "step" =>
                      /\ k >= 5
                      /\ tr[k - 1][1] = "backward"
                      /\ tr[k - 2][1] = "criterion"
                      /\ tr[k - 3][1] = "forward"
                      /\ tr[k - 4][1] = "zero_grad"
                /\ tr[k][1] = "zero_grad" =>
                      /\ k + 4 <= Len(tr)
                      /\ tr[k + 4][1] = "step"
                /\ tr[k][1] = "backward" =>
                      /\ k >= 4
                      /\ tr[k - 3][1] = "zero_grad"
                /\ tr[k][1] \in {"forward", "criterion"} =>
                      /\ k >= 2
                      /\ tr[k - 1][1] = (IF tr[k][1] = "forward" THEN "zero_grad"
                                         ELSE "forward")
    /\ (pc # "idle" /\ call.i >= 1) =>
          /\ call.applied = {<<call.epoch, call.i>>}
          /\ net[call.t].grad = {<<call.epoch, call.i>>}

(* The second minibatch of a second epoch has been stepped.                *)
C16_Witness ==
    /\ pc = "batch"
    /\ call.epoch = 2
    /\ call.i = 2
    /\ call.applied = {<<2, 2>>}
    /\ Len(SelectSeq(trace[call.t], LAMBDA ev : ev[1] = "step")) >= 4

(* The least number of minibatches of at most B samples that hold N *)
CeilDiv(N, B) == CHOOSE k \in 0..N : (k - 1) * B < N /\ N <= k * B

(* The minibatches of a pass split the N samples: none is empty, no sample *)
(* is in two, all but the last hold B samples                              *)
SplitsSamples(batches, N, B) ==
    /\ \A i \in 1..Len(batches) :
          /\ batches[i] # {}
          /\ batches[i] \subseteq 1..N
          /\ Cardinality(batches[i]) <= B
          /\ i < Len(batches) => Cardinality(batches[i]) = B
          /\ \A j \in 1..Len(batches) : i # j => batches[i] \cap batches[j] = {}

(* C17: a train call on N > 0 samples with batch_size >= 1, decay >= 1 and *)
(* E >= 0 epochs ends; in every epoch every sample is in exactly one       *)
(* minibatch, the last one possibly smaller, and the call makes            *)
(* E * ceil(N / B) optimizer steps.  Checked under SpecLoader, in which    *)
(* the interpreter keeps running the call.                                 *)
C17_TerminatesAfterAllBatches ==
    /\ [](pc # "idle" =>
            /\ SplitsSamples(call.batches, targs[call.t].N, targs[call.t].B)
            /\ (pc = "loop" /\ call.epoch >= 1) =>
                  /\ Drawn(call.batches) = 1..targs[call.t].N
                  /\ Len(call.batches) = CeilDiv(targs[call.t].N, targs[call.t].B)
            /\ Len(SelectSeq(trace[call.t], LAMBDA ev : ev[1] = "step"))
                  = (IF pc = "loop" THEN call.epoch ELSE call.epoch - 1)
                      * CeilDiv(targs[call.t].N, targs[call.t].B)
                    + (IF pc = "loop" THEN 0 ELSE Len(call.batches)))
    /\ []((pc = "idle" /\ ret.op = "train") =>
            Len(SelectSeq(trace[ret.t], LAMBDA ev : ev[1] = "step"))
               = targs[ret.t].epochs * CeilDiv(targs[ret.t].N, targs[ret.t].B))
    /\ (pc # "idle") ~> (pc = "idle" /\ ret.op = "train")

(* A finished call of two epochs or more on three samples in minibatches   *)
(* of two.                                                                 *)
C17_Witness ==
    /\ pc = "idle"
    /\ ret.op = "train"
    /\ targs[ret.t].epochs >= 2
    /\ targs[ret.t].N = 3
    /\ targs[ret.t].B = 2
    /\ Len(SelectSeq(trace[ret.t], LAMBDA ev : ev[1] = "step"))
          = 2 * targs[ret.t].epochs

(* C18: the two log sinks are independent.  With a log_file the end of    *)
(* every epoch appends exactly one line to that file, whether logging is   *)
(* True or False, after the lines the file had, which stay as they were;   *)
(* with log_file None no file is written; with logging False no record is  *)
(* printed.  Checked under SpecTrain.                                      *)
C18_IndependentSinks ==
    /\ [][ IF pc = "batch" /\ pc' = "loop"
           THEN LET lf == targs[call.t].log_file
                IN /\ lf # None =>
                         /\ Len(logf'[lf]) = Len(logf[lf]) + 1
                         /\ SubSeq(logf'[lf], 1, Len(logf[lf])) = logf[lf]
                         /\ logf'[lf][Len(logf'[lf])].epoch = call.epoch
                         /\ \A p \in LogPaths \ {lf} : logf'[p] = logf[p]
                   /\ lf = None => logf' = logf
                   /\ ~targs[call.t].logging => out' = out
                   /\ targs[call.t].logging =>
                         /\ Len(out') = Len(out) + 1
                         /\ out'[Len(out')][1] = "log"
           ELSE /\ logf' = logf
                /\ \A i \in 1..Len(out') :
                      out'[i][1] = "log" => (i <= Len(out) /\ out[i] = out'[i])
         ]_vars
    /\ []((pc = "idle" /\ ret.op = "train") =>
            LET lf == targs[ret.t].log_file
                E == targs[ret.t].epochs
            IN /\ lf # None =>
                     LET old == Len(logf[lf]) - E
                     IN /\ old \in {0, 1}
                        /\ old = 1 => logf[lf][1] = OldLine
                        /\ \A e \in 1..E : logf[lf][old + e].epoch = e
               /\ lf = None => \A p \in LogPaths : Len(logf[p]) <= 1
               /\ ~targs[ret.t].logging => out = << <<"Finished Training">> >>)

(* A finished call of two epochs or more with logging False and a log_file *)
(* that held a line before the call.                                       *)
C18_Witness ==
    /\ pc = "idle"
    /\ ret.op = "train"
    /\ ~targs[ret.t].logging
    /\ targs[ret.t].log_file # None
    /\ targs[ret.t].epochs >= 2
    /\ Len(logf[targs[ret.t].log_file]) = targs[ret.t].epochs + 1
    /\ logf[targs[ret.t].log_file][1] = OldLine
    /\ out = << <<"Finished Training">> >>

(* The "optim.SGD" events of a trace *)
Optimizers(tr) == SelectSeq(tr, LAMBDA ev : ev[1] = "optim.SGD")

(* C22: every epoch of train constructs its own optimizer, and the         *)
(* momentum the optimizer holds comes from the steps of the current epoch  *)
(* alone: none at the head of the epoch, the first minibatch's after the   *)
(* first step, whether or not the epoch changed the learning rate.         *)
C22_FreshMomentum ==
    pc # "idle" =>
        /\ Len(Optimizers(trace[call.t])) = call.epoch
        /\ call.momentum = {<<call.epoch, j>> : j \in 1..call.i}
        /\ (pc = "batch" /\ call.i = 0) => call.momentum = {}

(* The first step of a third epoch has been taken, after two minibatches   *)
(* in each of the two epochs before; the second epoch divided the          *)
(* learning rate and the third did not.                                    *)
C22_Witness ==
    /\ pc = "batch"
    /\ call.epoch = 3
    /\ call.i = 1
    /\ call.nb = 2
    /\ call.momentum = {<<3, 1>>}
    /\ LET o == Optimizers(trace[call.t])
       IN /\ Len(o) = 3
          /\ o[1][2] = 0
          /\ o[2][2] = 1
          /\ o[3][2] = 1

====
